---- MODULE Spec2Model ----
(***************************************************************************)
(* bevy_entity_system: entity systems (per-entity units of work), the      *)
(* composition operators pipe / optional / map, and the drivers that turn  *)
(* an entity system into a system iterating over the matching entities.    *)
(***************************************************************************)
EXTENDS Integers, Sequences, FiniteSets, TLC

VARIABLES
    cfgId,    \* which composition is under drive (index into Configs)
    status,   \* "constructed" | "ready" | "panicked" (declaration conflict at
              \* set-up) | "run_panicked" (an unwrap failed inside a pass)
    alive,    \* set of live entity ids
    comps,    \* entity id -> set of component types held
    val,      \* entity id -> value of its Count component
    nextId,   \* id the next spawn receives
    passes,   \* number of passes run so far
    last,     \* observation of the pass that just ran (NoPass after any other step)
    fixture,  \* how many steps of the test's script the run has followed (-1: left it)
    outs,     \* outputs of the passes run while following the test's script
    access,   \* the query accesses the initialised system has registered
    held,     \* the state the system holds: that of its entity system and of its params
    probe     \* the last call made on DataMatch / Query outside a system, with its result

vars == <<cfgId, status, alive, comps, val, nextId, passes, last, fixture, outs, access, held,
          probe>>

(* ------------------------------ bounds -------------------------------- *)

MaxEntities == 3
MaxPasses == 2

Entities == 1..MaxEntities

(* ---------------------- components and values ------------------------- *)

\* Count(u32) of the crate's test; MyMarkerComponent of the crate's doc example.
Components == {"Count", "Marker"}

\* Inputs and outputs are tagged, so that values of different types can be
\* compared: () is <<>>, an integer n is <<"i32", n>>, Result's Ok(v) and
\* Err(v) are <<"Ok", v>> and <<"Err", v>>, a Vec is the tuple of its items.
Unit == <<>>
I32(n) == <<"i32", n>>
Num(x) == x[2]
Ok(v) == <<"Ok", v>>
Err(v) == <<"Err", v>>
IsOk(r) == r[1] = "Ok"
Payload(r) == r[2]

(* ------------------- QueryData and QueryFilter terms ------------------ *)

\* A Data requirement is a tuple of terms; <<>> is () and also stands for
\* Entity, which fetches the id and claims nothing.
Ref(c) == [k |-> "Ref", c |-> c, alt |-> {}]
Mut(c) == [k |-> "Mut", c |-> c, alt |-> {}]
OptRef(c) == [k |-> "OptRef", c |-> c, alt |-> {}]
\* AnyOf<(&A, &B, ..)>: alternative terms, S being {A, B, ..}.
AnyOf(S) == [k |-> "AnyOf", c |-> "", alt |-> S]

\* The components a data term fetches.
TermComps(t) == IF t.k = "AnyOf" THEN t.alt ELSE {t.c}

\* A Filter requirement is a tuple of terms.
With(c) == [k |-> "With", c |-> c, d |-> <<>>]
Without(c) == [k |-> "Without", c |-> c, d |-> <<>>]
DataMatch(d) == [k |-> "DataMatch", c |-> "", d |-> d]

\* D::matches_component_set for a tuple of data terms: every term matches;
\* &T and &mut T need T, Option<&T> and Entity match anything, AnyOf needs
\* one of its alternatives.
DataMatches(d, cs) ==
    \A i \in 1..Len(d) :
        /\ d[i].k \in {"Ref", "Mut"} => d[i].c \in cs
        /\ d[i].k = "AnyOf" => d[i].alt \cap cs # {}

\* DataMatch<D> matching every component set, as its filter_fetch does.
DataMatchMatchesAny(d, cs) == TRUE

\* DataMatch<D>::matches_component_set delegates to D's.
DataMatchMatches(d, cs) == DataMatches(d, cs)

\* Filter matching that passes over the Without terms.
FilterMatchesIgnoreWithout(f, cs) ==
    \A i \in 1..Len(f) :
        CASE f[i].k = "With" -> f[i].c \in cs
          [] f[i].k = "Without" -> TRUE
          [] f[i].k = "DataMatch" -> DataMatchMatches(f[i].d, cs)

\* F::matches_component_set for a tuple of filter terms.
FilterMatches(f, cs) ==
    \A i \in 1..Len(f) :
        CASE f[i].k = "With" -> f[i].c \in cs
          [] f[i].k = "Without" -> f[i].c \notin cs
          [] f[i].k = "DataMatch" -> DataMatchMatches(f[i].d, cs)

\* Whether Query<d, f> matches an entity holding the component set cs.
QueryMatches(d, f, cs) == DataMatches(d, cs) /\ FilterMatches(f, cs)

(* ----------------------- access declarations -------------------------- *)

\* FilteredAccess of a tuple of data terms (D::update_component_access):
\* &T reads T, &mut T writes T, both require T present; Option<&T> reads T
\* without requiring it, and so does AnyOf for each of its alternatives.
DataAccess(d) ==
    [reads |-> UNION {TermComps(d[i]) : i \in 1..Len(d)},
     writes |-> {d[i].c : i \in {j \in 1..Len(d) : d[j].k = "Mut"}},
     with |-> {d[i].c : i \in {j \in 1..Len(d) : d[j].k \in {"Ref", "Mut"}}},
     without |-> {}]

\* DataMatch<D> registering all of D's access, reads and writes included.
DataMatchAccessFull(d) == DataAccess(d)

\* The filter sets of data_access once D::update_component_access has run on
\* FilteredAccess::default(): alternatives, each a set of With and a set of
\* Without terms.  &T and &mut T add With<T> to every alternative; AnyOf
\* replaces every alternative by one per member, with that member added.
RECURSIVE DataFilterSets(_, _)
DataFilterSets(d, sets) ==
    IF d = <<>> THEN sets
    ELSE LET t == Head(d)
             and_with(f, c) == [with |-> f.with \cup {c}, without |-> f.without]
         IN DataFilterSets(Tail(d),
              CASE t.k \in {"Ref", "Mut"} -> {and_with(f, t.c) : f \in sets}
                [] t.k = "OptRef" -> sets
                [] t.k = "AnyOf" -> {and_with(f, c) : f \in sets, c \in t.alt})

\* FilteredAccess::with_filters and without_filters: the terms of all the
\* filter sets, one after the other.
with_filters(sets) == UNION {f.with : f \in sets}
without_filters(sets) == UNION {f.without : f \in sets}

\* data_access of DataMatch::update_component_access.
DataMatchDataAccess(d) == DataFilterSets(d, {[with |-> {}, without |-> {}]})

\* DataMatch<D>::update_component_access: only the With / Without terms of
\* D's access are added, no read and no write:
\*   for index in data_access.with_filters() { access.and_with(index) }
\*   for index in data_access.without_filters() { access.and_without(index) }
DataMatchAccess(d) ==
    [reads |-> {}, writes |-> {},
     with |-> with_filters(DataMatchDataAccess(d)),
     without |-> without_filters(DataMatchDataAccess(d))]

FilterTermAccess(t) ==
    CASE t.k = "With" -> [reads |-> {}, writes |-> {}, with |-> {t.c}, without |-> {}]
      [] t.k = "Without" -> [reads |-> {}, writes |-> {}, with |-> {}, without |-> {t.c}]
      [] t.k = "DataMatch" -> DataMatchAccess(t.d)

AccessAnd(a, b) ==
    [reads |-> a.reads \cup b.reads, writes |-> a.writes \cup b.writes,
     with |-> a.with \cup b.with, without |-> a.without \cup b.without]

RECURSIVE FilterAccess(_)
FilterAccess(f) ==
    IF f = <<>> THEN [reads |-> {}, writes |-> {}, with |-> {}, without |-> {}]
    ELSE AccessAnd(FilterTermAccess(Head(f)), FilterAccess(Tail(f)))

\* The access Query<d, f> registers with the system.
QueryAccess(d, f) == AccessAnd(DataAccess(d), FilterAccess(f))

\* DataMatch::<D>::update_component_access(state, access): `access` as the call
\* leaves it.
DataMatchUpdateComponentAccess(d, acc) == AccessAnd(acc, DataMatchAccess(d))

\* The test made in one direction only: what the first writes against what
\* the second claims.
AccessCompatibleOneWay(a, b) ==
    \/ a.writes \cap b.reads = {}
    \/ a.with \cap b.without # {}
    \/ a.without \cap b.with # {}

\* Two query accesses may coexist when neither writes what the other claims,
\* or when their filters make them match disjoint sets of entities.
AccessCompatible(a, b) ==
    \/ /\ a.writes \cap b.reads = {}
       /\ b.writes \cap a.reads = {}
    \/ a.with \cap b.without # {}
    \/ a.without \cap b.with # {}

(* ------------------------------ params -------------------------------- *)

PQuery(d, f) == [k |-> "Query", data |-> d, filter |-> f, items |-> <<>>]
PTuple(items) == [k |-> "Tuple", data |-> <<>>, filter |-> <<>>, items |-> items]
PSet(items) == [k |-> "ParamSet", data |-> <<>>, filter |-> <<>>, items |-> items]
\* Local<u32>: a value kept in the param state, claiming nothing of the store.
PLocal == [k |-> "Local", data |-> <<>>, filter |-> <<>>, items |-> <<>>]

(* --------------------------- entity systems --------------------------- *)

\* Function entity systems: fn(In<..>, Data<QData, QFilter>, params..) -> Out.
LeafSystem(name, d, f, p, op) ==
    [kind |-> "leaf", name |-> name, data |-> d, filter |-> f, param |-> p, op |-> op]

\* fn increment_count(data: Data<&mut Count>) -> u32
increment_count ==
    LeafSystem("increment_count", <<Mut("Count")>>, <<>>, <<>>, "increment_count")
\* fn get_count(data: Data<&Count>) -> i32
get_count ==
    LeafSystem("get_count", <<Ref("Count")>>, <<>>, <<>>, "get_count")
\* fn my_entity_system_with_input(input: In<i32>, mut data: Data<&mut Count>)
my_entity_system_with_input ==
    LeafSystem("my_entity_system_with_input", <<Mut("Count")>>, <<>>, <<>>, "add_input")
\* fn(In<i32>, Data<&Count>) -> i32: the input plus the entity's Count
plus_count ==
    LeafSystem("plus_count", <<Ref("Count")>>, <<>>, <<>>, "plus_count")
\* fn(In<i32>, Data<(), With<Marker>>) -> i32: the input plus one
marked_succ ==
    LeafSystem("marked_succ", <<>>, <<With("Marker")>>, <<>>, "succ")
\* fn(In<i32>, Data<(), Without<Marker>>) -> i32: the input plus one
unmarked_succ ==
    LeafSystem("unmarked_succ", <<>>, <<Without("Marker")>>, <<>>, "succ")
\* fn(In<i32>, Data<&Count, With<Marker>>) -> i32
marked_plus_count ==
    LeafSystem("marked_plus_count", <<Ref("Count")>>, <<With("Marker")>>, <<>>, "plus_count")
\* fn(In<Result<i32, i32>>, Data<()>) -> i32: the downstream stage of an optional
recover ==
    LeafSystem("recover", <<>>, <<>>, <<>>, "recover")
\* fn(In<i32>, Data<&mut Count>, Query<&Count>) -> i32: data and param overlap
conflicting ==
    LeafSystem("conflicting", <<Mut("Count")>>, <<>>,
               <<PQuery(<<Ref("Count")>>, <<>>)>>, "sum_param")
\* fn(In<i32>, Data<&Count>, Query<&mut Count>) -> i32: the overlap the other way
conflicting_param ==
    LeafSystem("conflicting_param", <<Ref("Count")>>, <<>>,
               <<PQuery(<<Mut("Count")>>, <<>>)>>, "sum_param")
\* fn(In<i32>, Data<&mut Count, With<Marker>>, Query<&Count, Without<Marker>>) -> i32
disjoint_param ==
    LeafSystem("disjoint_param", <<Mut("Count")>>, <<With("Marker")>>,
               <<PQuery(<<Ref("Count")>>, <<Without("Marker")>>)>>, "sum_param")

\* fn(In<i32>, Data<(), With<Marker>>, Query<&mut Count>) -> i32
param_writer ==
    LeafSystem("param_writer", <<>>, <<With("Marker")>>,
               <<PQuery(<<Mut("Count")>>, <<>>)>>, "sum_param")

\* fn(Data<&Count>, mut calls: Local<u32>) -> u32 { *calls += 1; *calls }
count_calls ==
    LeafSystem("count_calls", <<Ref("Count")>>, <<>>, <<PLocal>>, "count_calls")
\* let mut n = 0; move |_: Data<&Count>| -> u32 { n += 1; n }
tally ==
    LeafSystem("tally", <<Ref("Count")>>, <<>>, <<>>, "tally")

\* Ordinary system functions (no Data parameter) as entity systems:
\* impl MarkedEntitySystem<(IsSystemParamFunction, M)> for T: SystemParamFunction
\* with type Data = (); type Filter = (); type Param = T::Param.
SystemParamFunction(name, p, op) == LeafSystem(name, <<>>, <<>>, p, op)

\* fn tick(mut n: Local<u32>) -> u32 { *n += 1; *n }
tick == SystemParamFunction("tick", <<PLocal>>, "count_calls")
\* fn sum_counts(In(x): In<i32>, counts: Query<&Count>) -> i32
sum_counts ==
    SystemParamFunction("sum_counts", <<PQuery(<<Ref("Count")>>, <<>>)>>, "sum_param")

\* The ordinary system functions.
SystemFunctions == {tick, sum_counts}

\* entity_system_pipe(a, b)
PipeEntitySystem(a, b) == [kind |-> "pipe", a |-> a, b |-> b]
\* optional(system)
OptionalEntitySystem(t) == [kind |-> "optional", system |-> t]
\* adapt(system, func)
AdapterEntitySystem(t, func) == [kind |-> "adapter", system |-> t, func |-> func]

RECURSIVE DataOf(_)
RECURSIVE FilterOf(_)
RECURSIVE ParamOf(_)

\* ESPipeFilter without DataMatch<A::Data>.
ESPipeFilterNoDataMatchA(a, b) ==
    FilterOf(a) \o <<DataMatch(DataOf(b))>> \o FilterOf(b)

\* ESPipeFilter without DataMatch<B::Data>.
ESPipeFilterNoDataMatchB(a, b) ==
    <<DataMatch(DataOf(a))>> \o FilterOf(a) \o FilterOf(b)

\* type ESPipeFilter<A, B> = (DataMatch<A::Data>, A::Filter, DataMatch<B::Data>, B::Filter)
ESPipeFilter(a, b) ==
    <<DataMatch(DataOf(a))>> \o FilterOf(a) \o <<DataMatch(DataOf(b))>> \o FilterOf(b)

\* ESPipeParam whose second sub-view queries A::Data again.
ESPipeParamBothA(a, b) ==
    PSet(<<PTuple(<<PQuery(DataOf(a), ESPipeFilter(a, b)), ParamOf(a)>>),
           PTuple(<<PQuery(DataOf(a), ESPipeFilter(a, b)), ParamOf(b)>>)>>)

\* ESPipeParam as a plain tuple of the two sub-views.
ESPipeParamTuple(a, b) ==
    PTuple(<<PTuple(<<PQuery(DataOf(a), ESPipeFilter(a, b)), ParamOf(a)>>),
             PTuple(<<PQuery(DataOf(b), ESPipeFilter(a, b)), ParamOf(b)>>)>>)

\* type ESPipeParam<A, B> = ParamSet<((Query<A::Data, F>, A::Param), (Query<B::Data, F>, B::Param))>
ESPipeParam(a, b) ==
    PSet(<<PTuple(<<PQuery(DataOf(a), ESPipeFilter(a, b)), ParamOf(a)>>),
           PTuple(<<PQuery(DataOf(b), ESPipeFilter(a, b)), ParamOf(b)>>)>>)

\* OptionalEntitySystem with type Filter = T::Filter.
OptionalFilterInner(t) == FilterOf(t)

\* OptionalEntitySystem: type Filter = ()
OptionalFilter(t) == <<>>
\* OptionalEntitySystem: type Param = (SQuery<T::Data, T::Filter>, T::Param)
OptionalParam(t) == PTuple(<<PQuery(DataOf(t), FilterOf(t)), ParamOf(t)>>)

\* AdapterEntitySystem: type Data = T::Data; type Filter = T::Filter
AdapterData(t) == DataOf(t)
AdapterFilter(t) == FilterOf(t)

\* EntitySystem::Data
DataOf(s) ==
    CASE s.kind = "leaf" -> s.data
      [] s.kind = "pipe" -> <<>>
      [] s.kind = "optional" -> <<>>
      [] s.kind = "adapter" -> AdapterData(s.system)

\* EntitySystem::Filter
FilterOf(s) ==
    CASE s.kind = "leaf" -> s.filter
      [] s.kind = "pipe" -> ESPipeFilter(s.a, s.b)
      [] s.kind = "optional" -> OptionalFilter(s.system)
      [] s.kind = "adapter" -> AdapterFilter(s.system)

\* EntitySystem::Param
ParamOf(s) ==
    CASE s.kind = "leaf" -> PTuple(s.param)
      [] s.kind = "pipe" -> ESPipeParam(s.a, s.b)
      [] s.kind = "optional" -> OptionalParam(s.system)
      [] s.kind = "adapter" -> ParamOf(s.system)

\* "Such system can only be run for entities that match it's Data and Filter"
Eligible(s, cs) == QueryMatches(DataOf(s), FilterOf(s), cs)

\* The sub-system at a path of child indices (pipe: 1 = A, 2 = B; optional and
\* adapter: 1 = the wrapped system).
RECURSIVE Sub(_, _)
Sub(s, path) ==
    IF path = <<>> THEN s
    ELSE Sub(IF s.kind = "pipe" THEN (IF Head(path) = 1 THEN s.a ELSE s.b) ELSE s.system,
             Tail(path))

RECURSIVE Paths(_)
Paths(s) ==
    {<<>>} \cup
    CASE s.kind = "leaf" -> {}
      [] s.kind = "pipe" -> {<<1>> \o p : p \in Paths(s.a)} \cup {<<2>> \o p : p \in Paths(s.b)}
      [] OTHER -> {<<1>> \o p : p \in Paths(s.system)}

(* ----------------- set-up: the system's declared params ---------------- *)

\* Param::init_state over a param tree.  st = [ok, acc]: acc is the set of
\* query accesses the system has registered so far; a Query that is not
\* compatible with one of them is a declaration conflict (ok = FALSE).
\* A tuple initialises its members in order against the same system; a
\* ParamSet initialises each member against the system as it was before the
\* set, so members are not checked against each other.
RECURSIVE InitParam(_, _)
RECURSIVE InitItems(_, _)
InitItems(items, st) ==
    IF items = <<>> THEN st
    ELSE InitItems(Tail(items), InitParam(Head(items), st))

InitParam(p, st) ==
    CASE p.k = "Query" ->
           LET qa == QueryAccess(p.data, p.filter)
           IN [ok |-> st.ok /\ \A a \in st.acc : AccessCompatible(qa, a),
               acc |-> st.acc \cup {qa}]
      [] p.k = "Local" -> st
      [] p.k = "Tuple" -> InitItems(p.items, st)
      [] p.k = "ParamSet" ->
           LET n == Len(p.items)
               inSystem == [i \in 1..n |-> InitParam(p.items[i], [ok |-> TRUE, acc |-> st.acc])]
               alone == [i \in 1..n |-> InitParam(p.items[i], [ok |-> TRUE, acc |-> {}])]
           IN [ok |-> st.ok /\ \A i \in 1..n : inSystem[i].ok /\ alone[i].ok,
               acc |-> st.acc \cup UNION {alone[i].acc : i \in 1..n}]

\* The driver's closure taking one ParamSet<(Query<Data, Filter>, Param)>.
DriverParamOneSet(s) ==
    PSet(<<PQuery(DataOf(s), FilterOf(s)), ParamOf(s)>>)

\* The params of the system a driver builds:
\* (Query<Data, Filter>, ParamSet<(Param,)>).
DriverParam(s) ==
    PTuple(<<PQuery(DataOf(s), FilterOf(s)), PSet(<<ParamOf(s)>>)>>)

\* Whether initialising the driver's system succeeds (no declaration conflict).
SystemInitOk(s) == InitParam(DriverParam(s), [ok |-> TRUE, acc |-> {}]).ok

\* The query accesses the driver's system has registered once it is initialised.
SystemAccess(s) == InitParam(DriverParam(s), [ok |-> TRUE, acc |-> {}]).acc

(* --------------------------- running a system -------------------------- *)

\* The store as a pass sees it.
World == [alive |-> alive, comps |-> comps, val |-> val]

\* Query::get_mut(entity) on Query<d, f>.
QueryGet(d, f, e, w) == e \in w.alive /\ QueryMatches(d, f, w.comps[e])

\* The entities a Query<d, f> iterates over.
QueryIter(d, f, w) == {e \in w.alive : QueryMatches(d, f, w.comps[e])}

RECURSIVE SumVals(_, _)
SumVals(S, v) ==
    IF S = {} THEN 0
    ELSE LET e == CHOOSE x \in S : TRUE IN v[e] + SumVals(S \ {e}, v)

\* Events of the invocation log.
EvCall(path, e, x) == [t |-> "call", node |-> path, e |-> e, x |-> x]
EvRet(path, e, x) == [t |-> "ret", node |-> path, e |-> e, x |-> x]
EvGet(path, e, slot, ok) == [t |-> "get", node |-> path, e |-> e, x |-> <<slot, ok>>]

Log(rs, ev) == [rs EXCEPT !.log = Append(@, ev)]

\* The body of a function entity system, on entity e with input x.
\* rs = [val, log, panic, held] is the state the invocation runs in: the
\* store's values, the log, and the state of the entity system (own) and of
\* its params (param) as handed to it.  The result
\* holds the output, the state, and xin: the invocation's own copy of the
\* input as the body left it (succ takes `In(mut x)` and increments it).
LeafRun(s, x, e, w, rs) ==
    CASE s.op = "increment_count" ->
           [out |-> I32(rs.val[e] + 1), xin |-> x, rs |-> [rs EXCEPT !.val[e] = @ + 1]]
      [] s.op = "get_count" -> [out |-> I32(rs.val[e]), xin |-> x, rs |-> rs]
      [] s.op = "add_input" ->
           [out |-> Unit, xin |-> x, rs |-> [rs EXCEPT !.val[e] = @ + Num(x)]]
      [] s.op = "plus_count" -> [out |-> I32(Num(x) + rs.val[e]), xin |-> x, rs |-> rs]
      [] s.op = "succ" -> [out |-> I32(Num(x) + 1), xin |-> I32(Num(x) + 1), rs |-> rs]
      [] s.op = "recover" ->
           [out |-> IF IsOk(x) THEN Payload(x) ELSE I32(Num(Payload(x)) + 100),
            xin |-> x, rs |-> rs]
      [] s.op = "count_calls" ->
           [out |-> I32(rs.held.param + 1), xin |-> x,
            rs |-> [rs EXCEPT !.held.param = @ + 1]]
      [] s.op = "tally" ->
           [out |-> I32(rs.held.own + 1), xin |-> x, rs |-> [rs EXCEPT !.held.own = @ + 1]]
      [] s.op = "sum_param" ->
           [out |-> I32(Num(x) + SumVals(QueryIter(s.param[1].data, s.param[1].filter, w),
                                         rs.val)),
            xin |-> x, rs |-> rs]

\* The functions given to map.
ApplyFunc(func, x) ==
    CASE func = "double" -> I32(2 * Num(x))
      [] func = "ok_flag" -> IF IsOk(x) THEN I32(1) ELSE I32(0)
      [] func = "discard" -> Unit

RECURSIVE Run(_, _, _, _, _, _)

\* Option::unwrap on a failed lookup.
Panic(x, rs) == [out |-> Unit, xin |-> x, rs |-> [rs EXCEPT !.panic = TRUE]]

\* PipeEntitySystem::run handing B the component values fetched before A ran.
PipeRunStaleB(s, path, x, e, w, rs) ==
    LET f == ESPipeFilter(s.a, s.b)
        rs1 == Log(rs, EvGet(path, e, 0, TRUE))
        ra == Run(s.a, path \o <<1>>, x, e, w, rs1)
        rs2 == Log(ra.rs, EvGet(path, e, 1, TRUE))
        rb == Run(s.b, path \o <<2>>, ra.out, e, w, [rs2 EXCEPT !.val = rs.val])
    IN [out |-> rb.out, xin |-> ra.xin, rs |-> [rb.rs EXCEPT !.val = ra.rs.val]]

\* PipeEntitySystem::run taking both sub-views before it runs A.
PipeRunBothViews(s, path, x, e, w, rs) ==
    LET f == ESPipeFilter(s.a, s.b)
        okA == QueryGet(DataOf(s.a), f, e, w)
        okB == QueryGet(DataOf(s.b), f, e, w)
        rs1 == Log(Log(rs, EvGet(path, e, 0, okA)), EvGet(path, e, 1, okB))
    IN IF ~okA \/ ~okB THEN Panic(x, rs1)
       ELSE LET ra == Run(s.a, path \o <<1>>, x, e, w, rs1)
            IN IF ra.rs.panic THEN ra
               ELSE LET rb == Run(s.b, path \o <<2>>, ra.out, e, w, ra.rs)
                    IN [out |-> rb.out, xin |-> ra.xin, rs |-> rb.rs]

\* PipeEntitySystem::run evaluating A a second time for the value it hands to B.
PipeRunTwiceA(s, path, x, e, w, rs) ==
    LET f == ESPipeFilter(s.a, s.b)
        rs1 == Log(rs, EvGet(path, e, 0, TRUE))
        r0 == Run(s.a, path \o <<1>>, x, e, w, rs1)
        ra == Run(s.a, path \o <<1>>, x, e, w, r0.rs)
        rs2 == Log(ra.rs, EvGet(path, e, 1, TRUE))
        rb == Run(s.b, path \o <<2>>, ra.out, e, w, rs2)
    IN [out |-> rb.out, xin |-> ra.xin, rs |-> rb.rs]

\* PipeEntitySystem::run
PipeRun(s, path, x, e, w, rs) ==
    LET f == ESPipeFilter(s.a, s.b)
        okA == QueryGet(DataOf(s.a), f, e, w)
        rs1 == Log(rs, EvGet(path, e, 0, okA))
    IN IF ~okA THEN Panic(x, rs1)
       ELSE LET ra == Run(s.a, path \o <<1>>, x, e, w, rs1)
            IN IF ra.rs.panic THEN ra
               ELSE LET okB == QueryGet(DataOf(s.b), f, e, w)
                        rs2 == Log(ra.rs, EvGet(path, e, 1, okB))
                    IN IF ~okB THEN Panic(ra.xin, rs2)
                       ELSE LET rb == Run(s.b, path \o <<2>>, ra.out, e, w, rs2)
                            IN [out |-> rb.out, xin |-> ra.xin, rs |-> rb.rs]

\* OptionalEntitySystem::run that runs T whatever the lookup says.
OptionalRunAlways(s, path, x, e, w, rs) ==
    LET ok == QueryGet(DataOf(s.system), FilterOf(s.system), e, w)
        r == Run(s.system, path \o <<1>>, x, e, w, Log(rs, EvGet(path, e, 0, ok)))
    IN [out |-> Ok(r.out), xin |-> r.xin, rs |-> r.rs]

\* OptionalEntitySystem::run
OptionalRun(s, path, x, e, w, rs) ==
    LET ok == QueryGet(DataOf(s.system), FilterOf(s.system), e, w)
        rs1 == Log(rs, EvGet(path, e, 0, ok))
    IN IF ok
       THEN LET r == Run(s.system, path \o <<1>>, x, e, w, rs1)
            IN [out |-> Ok(r.out), xin |-> r.xin, rs |-> r.rs]
       ELSE [out |-> Err(x), xin |-> x, rs |-> rs1]

\* AdapterEntitySystem::run returning T's output as it is.
AdapterRunNoFunc(s, path, x, e, w, rs) ==
    Run(s.system, path \o <<1>>, x, e, w, rs)

\* AdapterEntitySystem::run with Adapt for F: self(run_system(input))
AdapterRun(s, path, x, e, w, rs) ==
    LET r == Run(s.system, path \o <<1>>, x, e, w, rs)
    IN IF r.rs.panic THEN r
       ELSE [out |-> ApplyFunc(s.func, r.out), xin |-> r.xin, rs |-> r.rs]

\* EntitySystem::run: one invocation of the system at `path` on entity e.
Run(s, path, x, e, w, rs) ==
    LET rs1 == Log(rs, EvCall(path, e, x))
        r == CASE s.kind = "leaf" -> LeafRun(s, x, e, w, rs1)
               [] s.kind = "pipe" -> PipeRun(s, path, x, e, w, rs1)
               [] s.kind = "optional" -> OptionalRun(s, path, x, e, w, rs1)
               [] s.kind = "adapter" -> AdapterRun(s, path, x, e, w, rs1)
    IN IF r.rs.panic THEN r
       ELSE [out |-> r.out, xin |-> r.xin, rs |-> Log(r.rs, EvRet(path, e, r.out))]

(* ------------------------------ drivers ------------------------------- *)

\* T::default() of the accumulator, per fold given to into_system_with_output:
\*   "sum"  |val: &mut u32, step| *val += step
\*   "push" |acc: &mut Vec<_>, out| acc.push(out)
\* into_system and the derived IntoSystem have no output ("none").
FoldDefault(fold) ==
    CASE fold = "sum" -> I32(0)
      [] fold = "push" -> <<>>
      [] fold = "none" -> Unit

\* func(&mut output, result)
FoldStep(fold, acc, out) ==
    CASE fold = "sum" -> I32(Num(acc) + Num(out))
      [] fold = "push" -> Append(acc, out)
      [] fold = "none" -> Unit

\* The accumulator kept from the pass before.
PassSeedCarried(fold) == IF last.n > 0 THEN last.out ELSE FoldDefault(fold)

\* let mut output = T::default();
PassSeed(fold) == FoldDefault(fold)

\* One input value shared by all invocations of a pass.
InvocationInputShared(input, used) == used

\* input.clone(): the input each invocation of a pass receives; `used` is the
\* copy the invocation before it received, as that invocation left it.
InvocationInput(input, used) == input

\* Query<Data> of the driver's closure, the Filter left out.
DriverQueryNoFilter(s) == [data |-> DataOf(s), filter |-> <<>>]

\* Query<Data, Filter> of the driver's closure.
DriverQuery(s) == [data |-> DataOf(s), filter |-> FilterOf(s)]

\* An entity system and a param state built anew for the invocation.
InvocationStateFresh(h, e) == [own |-> 0, param |-> 0]

\* &mut entity_system and param.p0(): the entity system and the param state
\* an invocation on entity e is handed, h being what the system holds.
InvocationState(h, e) == h

RECURSIVE PassLoop(_, _, _, _, _, _, _)

\* Stage A of a pipe run on the entities ord[k..], ahead of the loop.
RECURSIVE StageARuns(_, _, _, _, _, _)
StageARuns(s, input, ord, k, w, rs) ==
    IF k > Len(ord) THEN rs
    ELSE StageARuns(s, input, ord, k + 1, w, Run(s.a, <<1>>, input, ord[k], w, rs).rs)

\* The loop batching a pipe by stage: A runs on every entity before the
\* first entity reaches B.
PassLoopStaged(s, fold, input, ord, i, w, st) ==
    IF i > Len(ord) \/ st.rs.panic THEN st
    ELSE IF i = 1 /\ st.rs.log = <<>> /\ s.kind = "pipe"
         THEN PassLoop(s, fold, input, ord, 1, w,
                       [st EXCEPT !.rs = StageARuns(s, input, ord, 1, w, st.rs)])
         ELSE LET r == Run(s, <<>>, InvocationInput(input, st.used), ord[i], w,
                      [st.rs EXCEPT !.held = InvocationState(@, ord[i])])
              IN PassLoop(s, fold, input, ord, i + 1, w,
                          [acc |-> IF r.rs.panic THEN st.acc ELSE FoldStep(fold, st.acc, r.out),
                           used |-> r.xin, rs |-> r.rs])

\* The loop with `output` declared inside it: only the last result is folded.
PassLoopResetEach(s, fold, input, ord, i, w, st) ==
    IF i > Len(ord) \/ st.rs.panic THEN st
    ELSE LET r == Run(s, <<>>, InvocationInput(input, st.used), ord[i], w,
                      [st.rs EXCEPT !.held = InvocationState(@, ord[i])])
         IN PassLoop(s, fold, input, ord, i + 1, w,
                     [acc |-> FoldStep(fold, FoldDefault(fold), r.out),
                      used |-> r.xin, rs |-> r.rs])

\* The loop leaving after one invocation when the entity system has no Data
\* and no Filter: such a system run once per pass.
PassLoopOncePerPass(s, fold, input, ord, i, w, st) ==
    IF i > Len(ord) \/ st.rs.panic \/ (i > 1 /\ DataOf(s) = <<>> /\ FilterOf(s) = <<>>) THEN st
    ELSE LET r == Run(s, <<>>, InvocationInput(input, st.used), ord[i], w,
                      [st.rs EXCEPT !.held = InvocationState(@, ord[i])])
         IN PassLoop(s, fold, input, ord, i + 1, w,
                     [acc |-> IF r.rs.panic THEN st.acc ELSE FoldStep(fold, st.acc, r.out),
                      used |-> r.xin, rs |-> r.rs])

\* for data in query.iter_mut() { result = run(input.clone(), data, param.p0());
\*                               func(&mut output, result); }
\* over the entities ord[i..], st = [acc, used, rs].
PassLoop(s, fold, input, ord, i, w, st) ==
    IF i > Len(ord) \/ st.rs.panic THEN st
    ELSE LET r == Run(s, <<>>, InvocationInput(input, st.used), ord[i], w,
                      [st.rs EXCEPT !.held = InvocationState(@, ord[i])])
         IN PassLoop(s, fold, input, ord, i + 1, w,
                     [acc |-> IF r.rs.panic THEN st.acc ELSE FoldStep(fold, st.acc, r.out),
                      used |-> r.xin, rs |-> r.rs])

PassStart(seed, input, w) ==
    [acc |-> seed, used |-> input, rs |-> [val |-> w.val, log |-> <<>>, panic |-> FALSE, held |-> held]]

\* The closure built by IntoEntitySystem::into_system_with_output.
into_system_with_output(s, fold, input, ord, w) ==
    PassLoop(s, fold, input, ord, 1, w, PassStart(PassSeed(fold), input, w))

\* The closure built by EntitySystemIntoSystem::into_system.
into_system(s, input, ord, w) ==
    PassLoop(s, "none", input, ord, 1, w, PassStart(Unit, input, w))

\* EntitySystemSystemParamFunction::run, behind the derived IntoSystem.
EntitySystemSystemParamFunction(s, input, ord, w) ==
    PassLoop(s, "none", input, ord, 1, w, PassStart(Unit, input, w))

\* One run of the system the configuration's driver built.
RunSystem(c, input, ord, w) ==
    CASE c.driver = "into_system_with_output" ->
           into_system_with_output(c.sys, c.fold, input, ord, w)
      [] c.driver = "into_system" -> into_system(c.sys, input, ord, w)
      [] c.driver = "IntoSystem" -> EntitySystemSystemParamFunction(c.sys, input, ord, w)

\* The orders in which a query may yield the set S (the store's order).
Orders(S) ==
    {o \in [1..Cardinality(S) -> S] : \A i, j \in 1..Cardinality(S) : o[i] = o[j] => i = j}

(* --------------------------- configurations --------------------------- *)

Config(s, driver, fold, ins) == [sys |-> s, driver |-> driver, fold |-> fold, ins |-> ins]

\* Inputs given to a pass of a system with In = i32.
Inputs == {I32(1), I32(2)}

\* increment_count.into_system_with_output(|val: &mut u32, step| *val += step)
TestConfig == Config(increment_count, "into_system_with_output", "sum", {Unit})

Configs ==
    << TestConfig,
       Config(get_count, "into_system_with_output", "push", {Unit}),
       Config(my_entity_system_with_input, "into_system", "none", Inputs),
       Config(AdapterEntitySystem(OptionalEntitySystem(marked_plus_count), "discard"),
              "IntoSystem", "none", Inputs),
       Config(PipeEntitySystem(increment_count, my_entity_system_with_input),
              "IntoSystem", "none", {Unit}),
       Config(PipeEntitySystem(increment_count, plus_count),
              "into_system_with_output", "push", {Unit}),
       Config(PipeEntitySystem(plus_count, marked_succ),
              "into_system_with_output", "push", Inputs),
       Config(PipeEntitySystem(marked_succ, plus_count),
              "into_system_with_output", "push", Inputs),
       Config(PipeEntitySystem(marked_succ, unmarked_succ),
              "into_system_with_output", "push", Inputs),
       Config(PipeEntitySystem(PipeEntitySystem(increment_count, plus_count), marked_succ),
              "into_system_with_output", "sum", {Unit}),
       Config(OptionalEntitySystem(marked_plus_count),
              "into_system_with_output", "push", Inputs),
       Config(PipeEntitySystem(OptionalEntitySystem(marked_plus_count), recover),
              "into_system_with_output", "push", Inputs),
       Config(OptionalEntitySystem(PipeEntitySystem(get_count, marked_succ)),
              "into_system_with_output", "push", {Unit}),
       Config(AdapterEntitySystem(get_count, "double"),
              "into_system_with_output", "sum", {Unit}),
       Config(AdapterEntitySystem(OptionalEntitySystem(plus_count), "ok_flag"),
              "into_system_with_output", "push", Inputs),
       Config(PipeEntitySystem(AdapterEntitySystem(marked_plus_count, "double"), plus_count),
              "into_system_with_output", "push", Inputs),
       Config(conflicting, "into_system_with_output", "sum", Inputs),
       Config(conflicting_param, "into_system_with_output", "sum", Inputs),
       Config(disjoint_param, "into_system_with_output", "sum", Inputs),
       Config(PipeEntitySystem(get_count, conflicting),
              "into_system_with_output", "sum", {Unit}),
       Config(OptionalEntitySystem(conflicting_param),
              "into_system_with_output", "push", Inputs),
       Config(AdapterEntitySystem(PipeEntitySystem(plus_count, marked_succ), "double"),
              "into_system_with_output", "sum", Inputs),
       Config(PipeEntitySystem(increment_count, PipeEntitySystem(plus_count, marked_succ)),
              "into_system_with_output", "push", {Unit}),
       Config(PipeEntitySystem(param_writer, plus_count),
              "into_system_with_output", "push", Inputs),
       Config(count_calls, "into_system_with_output", "push", {Unit}),
       Config(AdapterEntitySystem(tally, "discard"), "into_system", "none", {Unit}),
       Config(PipeEntitySystem(tally, plus_count),
              "into_system_with_output", "push", {Unit}),
       Config(tick, "into_system_with_output", "push", {Unit}),
       Config(sum_counts, "into_system_with_output", "sum", Inputs),
       Config(AdapterEntitySystem(tick, "discard"), "into_system", "none", {Unit}) >>

Cfg == Configs[cfgId]

(* ------------------------------ the store ----------------------------- *)

\* What spawn may be given: Count(v) with or without the marker, the marker
\* alone, or nothing.
Bundles ==
    {[cs |-> {"Count"}, v |-> 20], [cs |-> {"Count", "Marker"}, v |-> 5],
     [cs |-> {"Marker"}, v |-> 0], [cs |-> {}, v |-> 0]}

\* No call on DataMatch / Query outside a system has been made.
NoProbe == [op |-> "none", in |-> <<>>, out |-> <<>>]

NoPass == [n |-> 0, in |-> Unit, out |-> Unit, log |-> <<>>, order |-> <<>>,
           pre |-> [e \in Entities |-> 0], held |-> [own |-> 0, param |-> 0]]

\* The test's script after the store is set up with Count(0) and Count(10):
\* pass, pass, spawn Count(20), pass, despawn the entity that started at 10, pass.
Step(op, arg) == [op |-> op, arg |-> arg]
FixtureScript ==
    <<Step("pass", 0), Step("pass", 0), Step("spawn", 20), Step("pass", 0),
      Step("despawn", 2), Step("pass", 0)>>

\* The monitor of the test's script: one step further when the operation is
\* the script's next, off the script (-1) otherwise.
Follow(step) ==
    IF fixture >= 0 /\ fixture < Len(FixtureScript) /\ FixtureScript[fixture + 1] = step
    THEN fixture + 1 ELSE -1

\* Passes are capped: by the script's own length while the run follows it,
\* by MaxPasses otherwise.
PassBudget ==
    IF fixture >= 0
    THEN Cardinality({i \in 1..Len(FixtureScript) : FixtureScript[i].op = "pass"})
    ELSE MaxPasses

(* ------------------------------- actions ------------------------------ *)

\* World::spawn(bundle)
Spawn ==
    /\ nextId <= MaxEntities
    /\ \E b \in Bundles :
        /\ alive' = alive \cup {nextId}
        /\ comps' = [comps EXCEPT ![nextId] = b.cs]
        /\ val' = [val EXCEPT ![nextId] = b.v]
        /\ fixture' = IF b.cs = {"Count"} THEN Follow(Step("spawn", b.v)) ELSE -1
    /\ nextId' = nextId + 1
    /\ outs' = IF fixture' = -1 THEN <<>> ELSE outs
    /\ last' = NoPass
    /\ probe' = NoProbe
    /\ UNCHANGED <<cfgId, status, passes, access, held>>

\* World::despawn(entity)
Despawn ==
    /\ \E e \in alive :
        /\ alive' = alive \ {e}
        /\ comps' = [comps EXCEPT ![e] = {}]
        /\ val' = [val EXCEPT ![e] = 0]
        /\ fixture' = Follow(Step("despawn", e))
    /\ outs' = IF fixture' = -1 THEN <<>> ELSE outs
    /\ last' = NoPass
    /\ probe' = NoProbe
    /\ UNCHANGED <<cfgId, status, nextId, passes, access, held>>

\* System::initialize, which World::run_system performs on a registered system
\* before its first run: the params of the driver's closure are initialised
\* and a declaration conflict panics here.
Initialize ==
    /\ status = "constructed"
    /\ status' = IF SystemInitOk(Cfg.sys) THEN "ready" ELSE "panicked"
    /\ access' = SystemAccess(Cfg.sys)
    /\ UNCHANGED <<cfgId, alive, comps, val, nextId, passes, last, fixture, outs, held, probe>>

\* World::run_system: one pass of the driver's closure
\* (into_system, into_system_with_output, EntitySystemSystemParamFunction::run).
Pass ==
    /\ status = "ready"
    /\ passes < PassBudget
    /\ \E input \in Cfg.ins :
       \E ord \in Orders(QueryIter(DriverQuery(Cfg.sys).data, DriverQuery(Cfg.sys).filter, World)) :
       \E r \in {RunSystem(Cfg, input, ord, World)} :
            /\ val' = r.rs.val
            /\ status' = IF r.rs.panic THEN "run_panicked" ELSE status
            /\ last' = [n |-> passes + 1, in |-> input, out |-> r.acc, log |-> r.rs.log,
                        order |-> ord, pre |-> val, held |-> held]
            /\ held' = r.rs.held
            /\ fixture' = Follow(Step("pass", 0))
            /\ outs' = IF fixture' = -1 THEN <<>> ELSE Append(outs, r.acc)
    /\ passes' = passes + 1
    /\ UNCHANGED <<cfgId, alive, comps, nextId, access, probe>>

Next == Spawn \/ Despawn \/ Initialize \/ Pass

\* A composition among `ids`, over a store set up with
\* world.spawn(Count(0)); world.spawn((Count(10), Marker)).
InitWith(ids) ==
    /\ cfgId \in ids
    /\ status = "constructed"
    /\ alive = {1, 2}
    /\ comps = [e \in Entities |-> CASE e = 1 -> {"Count"}
                                      [] e = 2 -> {"Count", "Marker"}
                                      [] OTHER -> {}]
    /\ val = [e \in Entities |-> IF e = 2 THEN 10 ELSE 0]
    /\ nextId = 3
    /\ passes = 0
    /\ last = NoPass
    /\ fixture = -1
    /\ outs = <<>>
    /\ access = {}
    /\ held = [own |-> 0, param |-> 0]
    /\ probe = NoProbe

\* Any composition.
Init == InitWith(1..Len(Configs))
Spec == Init /\ [][Next]_vars

HasKind(s, kind) == \E p \in Paths(s) : Sub(s, p).kind = kind
HasParams(s) == \E p \in Paths(s) : Sub(s, p).kind = "leaf" /\ Sub(s, p).param # <<>>

\* The compositions that hold a pipe.
InitPipe == InitWith({i \in 1..Len(Configs) : HasKind(Configs[i].sys, "pipe")})
SpecPipe == InitPipe /\ [][Next]_vars

\* The compositions that hold an optional.
InitOptional == InitWith({i \in 1..Len(Configs) : HasKind(Configs[i].sys, "optional")})
SpecOptional == InitOptional /\ [][Next]_vars

\* The compositions that hold a map.
InitAdapter == InitWith({i \in 1..Len(Configs) : HasKind(Configs[i].sys, "adapter")})
SpecAdapter == InitAdapter /\ [][Next]_vars

\* The drivers: function entity systems and compositions under each of
\* into_system_with_output, into_system and the derived IntoSystem.
InitDriver ==
    InitWith({i \in 1..Len(Configs) :
                \/ Configs[i].sys.kind = "leaf" /\ ~HasParams(Configs[i].sys)
                \/ Configs[i].driver # "into_system_with_output"
                \/ Configs[i].sys.kind = "pipe" /\ ~HasKind(Configs[i].sys, "optional")
                                                /\ ~HasKind(Configs[i].sys, "adapter")
                                                /\ ~HasParams(Configs[i].sys)})
SpecDriver == InitDriver /\ [][Next]_vars

\* The compositions that hold an entity system keeping state of its own or
\* in its params.
HasState(s) == \E p \in Paths(s) : Sub(s, p).kind = "leaf" /\ Sub(s, p).op \in {"count_calls", "tally"}
InitState == InitWith({i \in 1..Len(Configs) : HasState(Configs[i].sys)})
SpecState == InitState /\ [][Next]_vars

\* An ordinary system function, or a map over one, under drive.
IsSystemFunction(s) ==
    \/ s \in SystemFunctions
    \/ s.kind = "adapter" /\ s.system \in SystemFunctions
InitFunction == InitWith({i \in 1..Len(Configs) : IsSystemFunction(Configs[i].sys)})
SpecFunction == InitFunction /\ [][Next]_vars

\* The compositions of function entity systems that take params.
InitParams == InitWith({i \in 1..Len(Configs) : HasParams(Configs[i].sys)})
SpecParams == InitParams /\ [][Next]_vars

(* --------------- DataMatch and Query outside a system ---------------- *)

\* Data requirements handed to DataMatch and Query.
DataReqs ==
    {<<>>, <<Ref("Count")>>, <<Mut("Count")>>, <<OptRef("Count")>>, <<Ref("Marker")>>,
     <<Mut("Count"), Ref("Marker")>>, <<Ref("Count"), OptRef("Marker")>>}

\* Access declarations under construction: the query's data and the filter
\* terms before the DataMatch have already been registered.
Decls == {QueryAccess(d, f) : d \in DataReqs, f \in {<<>>, <<Without("Marker")>>}}

\* bevy rejects a data tuple that fetches one component twice, once mutably.
WellFormed(d) ==
    \A i, j \in 1..Len(d) :
        (i # j /\ d[i].c = d[j].c) => (d[i].k # "Mut" /\ d[j].k # "Mut")

\* DataMatch::<D>::update_component_access(state, &mut access)
UpdateComponentAccess ==
    /\ probe = NoProbe
    /\ \E d \in DataReqs : \E a \in Decls :
         probe' = [op |-> "update_component_access", in |-> <<d, a>>,
                   out |-> DataMatchUpdateComponentAccess(d, a)]
    /\ UNCHANGED <<cfgId, status, alive, comps, val, nextId, passes, last, fixture, outs, access,
                   held>>

\* Query<(X, T)>::iter and Query<X, DataMatch<T>>::iter over the store as it is.
IterateQueries ==
    /\ probe = NoProbe
    /\ \E x \in DataReqs : \E t \in DataReqs :
         /\ WellFormed(x \o t)
         /\ probe' = [op |-> "iter", in |-> <<x, t>>,
                      out |-> <<QueryIter(x \o t, <<>>, World),
                                QueryIter(x, <<DataMatch(t)>>, World)>>]
    /\ UNCHANGED <<cfgId, status, alive, comps, val, nextId, passes, last, fixture, outs, access,
                   held>>

\* Whether a system taking Query<a> and then Query<b> initialises.
QueriesInitOk(a, b) ==
    InitParam(PTuple(<<PQuery(a, <<>>), PQuery(b, <<>>)>>), [ok |-> TRUE, acc |-> {}]).ok

\* IntoSystem::into_system of a function taking (Query<a>, Query<b>), and of
\* one taking (Query<b>, Query<a>): whether each is accepted.
InitQueries ==
    /\ probe = NoProbe
    /\ \E a \in DataReqs : \E b \in DataReqs :
         probe' = [op |-> "init", in |-> <<a, b>>,
                   out |-> <<QueriesInitOk(a, b), QueriesInitOk(b, a)>>]
    /\ UNCHANGED <<cfgId, status, alive, comps, val, nextId, passes, last, fixture, outs, access,
                   held>>

\* Data requirements with alternative terms, next to the plain ones.
DataReqsAlt ==
    DataReqs \cup
    {<<AnyOf({"Count"})>>, <<AnyOf({"Count", "Marker"})>>,
     <<Ref("Count"), AnyOf({"Count", "Marker"})>>, <<OptRef("Count"), AnyOf({"Marker"})>>}

\* Filters of a second query writing Count.
OtherFilters == {<<>>, <<With("Marker")>>, <<Without("Marker")>>}

\* Whether a system taking Query<&mut Count, DataMatch<D>> and
\* Query<&mut Count, F> initialises.
DataMatchInitOk(d, f) ==
    InitParam(PTuple(<<PQuery(<<Mut("Count")>>, <<DataMatch(d)>>), PQuery(<<Mut("Count")>>, f)>>),
              [ok |-> TRUE, acc |-> {}]).ok

\* DataMatch::<D>::matches_component_set on the components of a live entity,
\* DataMatch::<D>::update_component_access on an empty declaration, and
\* IntoSystem::into_system of a function taking Query<&mut Count, DataMatch<D>>
\* and Query<&mut Count, F>.
MatchesComponentSet ==
    /\ probe = NoProbe
    /\ \E d \in DataReqsAlt : \E e \in alive : \E f \in OtherFilters :
         probe' = [op |-> "matches_component_set", in |-> <<d, e, f>>,
                   out |-> <<DataMatchMatches(d, comps[e]),
                             DataMatchUpdateComponentAccess(d, FilterAccess(<<>>)),
                             DataMatchInitOk(d, f)>>]
    /\ UNCHANGED <<cfgId, status, alive, comps, val, nextId, passes, last, fixture, outs, access,
                   held>>

NextAccess ==
    Spawn \/ Despawn \/ UpdateComponentAccess \/ IterateQueries \/ InitQueries
    \/ MatchesComponentSet

InitAccess == InitWith({1})
SpecAccess == InitAccess /\ [][NextAccess]_vars

\* The crate's test: world.spawn(Count(0)); world.spawn(Count(10));
\* increment_count driven by into_system_with_output with a summing fold.
InitCount ==
    /\ cfgId = 1
    /\ status = "constructed"
    /\ alive = {1, 2}
    /\ comps = [e \in Entities |-> IF e \in {1, 2} THEN {"Count"} ELSE {}]
    /\ val = [e \in Entities |-> IF e = 2 THEN 10 ELSE 0]
    /\ nextId = 3
    /\ passes = 0
    /\ last = NoPass
    /\ fixture = 0
    /\ outs = <<>>
    /\ access = {}
    /\ held = [own |-> 0, param |-> 0]
    /\ probe = NoProbe

SpecCount == InitCount /\ [][Next]_vars

(* ------------------- reading the log of the last pass ----------------- *)

L == last.log
Passed == last.n > 0 /\ status = "ready"

\* The invocations (call events) of the system at path p.
CallsOf(p) == {i \in 1..Len(L) : L[i].t = "call" /\ L[i].node = p}

\* The return of the invocation that starts at i: the first return of the
\* same node after i.
RetOf(i) ==
    CHOOSE j \in (i + 1)..Len(L) :
        /\ L[j].t = "ret" /\ L[j].node = L[i].node
        /\ \A k \in (i + 1)..(j - 1) : ~(L[k].t = "ret" /\ L[k].node = L[i].node)

\* The invocations of child c made inside the invocation that starts at i.
ChildCalls(i, c) ==
    {k \in (i + 1)..(RetOf(i) - 1) : L[k].t = "call" /\ L[k].node = L[i].node \o <<c>>}

The(S) == CHOOSE x \in S : TRUE

NodesOfKind(kind) == {p \in Paths(Cfg.sys) : Sub(Cfg.sys, p).kind = kind}

\* The entities the pass invoked the driven system on.
Visited == {L[i].e : i \in CallsOf(<<>>)}

(* ------------------------------- claims ------------------------------- *)

\* C1: increment_count under into_system_with_output with a summing fold:
\* every pass returns the sum of (Count + 1) over exactly the entities that
\* hold Count when it starts and leaves each of those Counts one higher (and
\* nothing else changed); the test's script pass, pass, spawn Count(20), pass,
\* despawn the entity that started at 10, pass returns 12, 14, 37, 26.
C1_CounterFold ==
    /\ Passed =>
         LET holders == {e \in alive : "Count" \in comps[e]}
         IN /\ last.out = I32(SumVals(holders, [e \in Entities |-> last.pre[e] + 1]))
            /\ \A e \in Entities :
                 val[e] = IF e \in holders THEN last.pre[e] + 1 ELSE last.pre[e]
    /\ fixture = Len(FixtureScript) => outs = <<I32(12), I32(14), I32(37), I32(26)>>

\* The test's script has been followed to its end.
C1_Witness == fixture = Len(FixtureScript) /\ Passed /\ Len(outs) = 4

\* C2: PipeEntitySystem(A, B) is eligible for an entity iff A is and B is;
\* a pass of a piped system invokes it on exactly those entities.
C2_PipeEligibility ==
    /\ \A p \in NodesOfKind("pipe") : \A cs \in SUBSET Components :
         LET s == Sub(Cfg.sys, p)
         IN Eligible(s, cs) <=> (Eligible(s.a, cs) /\ Eligible(s.b, cs))
    /\ (Passed /\ Cfg.sys.kind = "pipe") =>
         Visited = {e \in alive : Eligible(Cfg.sys.a, comps[e]) /\ Eligible(Cfg.sys.b, comps[e])}

\* A pass of a piped system over a store holding an entity only A accepts, or
\* only B accepts, next to one both accept.
C2_Witness ==
    /\ Passed /\ Cfg.sys.kind = "pipe"
    /\ Visited # {}
    /\ \E e \in alive :
         Eligible(Cfg.sys.a, comps[e]) /\ ~Eligible(Cfg.sys.b, comps[e])
    /\ \E e \in alive :
         ~Eligible(Cfg.sys.a, comps[e]) /\ Eligible(Cfg.sys.b, comps[e])

\* C3: one invocation of PipeEntitySystem(A, B) with input x runs A once
\* with x, then B once with A's output, and returns B's output.
C3_PipeRun ==
    Passed =>
      \A p \in NodesOfKind("pipe") : \A i \in CallsOf(p) :
        LET ca == ChildCalls(i, 1)
            cb == ChildCalls(i, 2)
        IN /\ Cardinality(ca) = 1 /\ Cardinality(cb) = 1
           /\ L[The(ca)].e = L[i].e /\ L[The(cb)].e = L[i].e
           /\ L[The(ca)].x = L[i].x
           /\ RetOf(The(ca)) < The(cb)
           /\ L[The(cb)].x = L[RetOf(The(ca))].x
           /\ L[RetOf(i)].x = L[RetOf(The(cb))].x

\* A pipe was invoked whose A returned something other than the pipe's input.
C3_Witness ==
    /\ Passed /\ Cfg.ins = Inputs
    /\ \E p \in NodesOfKind("pipe") : \E i \in CallsOf(p) :
         L[RetOf(The(ChildCalls(i, 1)))].x # L[i].x

\* C4: one invocation of OptionalEntitySystem(T) on e with input x: when e
\* does not match T::Data with T::Filter, T is not run and the result is
\* Err(x); otherwise T runs once with x and the result is Ok(T's output).
C4_OptionalRun ==
    Passed =>
      \A p \in NodesOfKind("optional") : \A i \in CallsOf(p) :
        LET t == Sub(Cfg.sys, p).system
            c == ChildCalls(i, 1)
            r == L[RetOf(i)].x
        IN IF Eligible(t, comps[L[i].e])
           THEN /\ Cardinality(c) = 1
                /\ L[The(c)].e = L[i].e
                /\ L[The(c)].x = L[i].x
                /\ r = Ok(L[RetOf(The(c))].x)
           ELSE /\ c = {}
                /\ r = Err(L[i].x)

\* An optional was invoked on an entity its system accepts and on one it
\* rejects, in the same pass.
C4_Witness ==
    /\ Passed
    /\ \E p \in NodesOfKind("optional") : \E i, j \in CallsOf(p) :
         /\ IsOk(L[RetOf(i)].x)
         /\ ~IsOk(L[RetOf(j)].x)

\* C5: OptionalEntitySystem(T) has an empty filter and is eligible for every
\* entity, those T accepts and those T rejects; a pass of optional(T) invokes
\* it on every entity of the store.
C5_OptionalEligibility ==
    /\ \A p \in NodesOfKind("optional") :
         /\ FilterOf(Sub(Cfg.sys, p)) = <<>>
         /\ \A cs \in SUBSET Components : Eligible(Sub(Cfg.sys, p), cs)
    /\ (Passed /\ Cfg.sys.kind = "optional") => Visited = alive

\* A pass of optional(T) over a store holding an entity T rejects.
C5_Witness ==
    /\ Passed /\ Cfg.sys.kind = "optional"
    /\ \E e \in Visited : ~Eligible(Cfg.sys.system, comps[e])
    /\ \E e \in Visited : Eligible(Cfg.sys.system, comps[e])

\* C6: AdapterEntitySystem(T, f) is eligible for exactly the entities T is
\* eligible for; one invocation with input x runs T once with x and returns
\* f applied to T's output.
C6_Adapter ==
    /\ \A p \in NodesOfKind("adapter") : \A cs \in SUBSET Components :
         Eligible(Sub(Cfg.sys, p), cs) <=> Eligible(Sub(Cfg.sys, p).system, cs)
    /\ Passed =>
         /\ Cfg.sys.kind = "adapter" =>
              Visited = {e \in alive : Eligible(Cfg.sys.system, comps[e])}
         /\ \A p \in NodesOfKind("adapter") : \A i \in CallsOf(p) :
              LET c == ChildCalls(i, 1)
              IN /\ Cardinality(c) = 1
                 /\ L[The(c)].e = L[i].e
                 /\ L[The(c)].x = L[i].x
                 /\ L[RetOf(i)].x = ApplyFunc(Sub(Cfg.sys, p).func, L[RetOf(The(c))].x)

\* map(double) was invoked on an entity whose Count is not 0, next to an
\* entity the wrapped system rejects.
C6_Witness ==
    /\ Passed /\ Cfg.sys.kind = "adapter" /\ Cfg.sys.func = "double"
    /\ \E i \in CallsOf(<<>>) : L[RetOf(i)].x # I32(0)
    /\ alive \ Visited # {}

\* C7: in every pass of a system built by into_system, into_system_with_output
\* or the derived IntoSystem, the entity system is invoked exactly once for
\* each entity matching its Data and Filter and for no other entity.
C7_ExactlyOncePerMatch ==
    last.n > 0 =>
      /\ \A i, j \in CallsOf(<<>>) : L[i].e = L[j].e => i = j
      /\ Visited = {e \in alive : Eligible(Cfg.sys, comps[e])}
      /\ \A e \in Visited : Cardinality({i \in 1..Len(L) : L[i].t = "ret" /\ L[i].node = <<>> /\ L[i].e = e}) = 1

\* A pass without output that invoked the system on two entities and skipped
\* a third.
C7_Witness ==
    /\ last.n > 0 /\ Cfg.driver # "into_system_with_output"
    /\ Cardinality(Visited) >= 2
    /\ alive \ Visited # {}

\* The outputs of the driven system's invocations, folded in log order.
RECURSIVE FoldRets(_, _, _)
FoldRets(fold, acc, i) ==
    IF i > Len(L) THEN acc
    ELSE FoldRets(fold,
                  IF L[i].t = "ret" /\ L[i].node = <<>> THEN FoldStep(fold, acc, L[i].x)
                  ELSE acc,
                  i + 1)

\* C8: every pass of a system built by into_system_with_output starts its
\* accumulator at T::default() and applies the fold once per invocation
\* output, in visiting order; nothing is carried over from the pass before,
\* and a pass over no matching entity returns T::default().
C8_FoldFromDefault ==
    (last.n > 0 /\ Cfg.driver = "into_system_with_output") =>
      /\ last.out = FoldRets(Cfg.fold, FoldDefault(Cfg.fold), 1)
      /\ Visited = {} => last.out = FoldDefault(Cfg.fold)
      /\ Cfg.fold = "push" =>
           /\ Len(last.out) = Len(last.order)
           /\ \A k \in 1..Len(last.order) :
                \E i \in CallsOf(<<>>) : L[i].e = last.order[k] /\ L[RetOf(i)].x = last.out[k]

\* A second pass that collected two different outputs, the later-spawned
\* entity first.
C8_Witness ==
    /\ last.n = 2 /\ Cfg.driver = "into_system_with_output" /\ Cfg.fold = "push"
    /\ Len(last.out) = 2 /\ last.out[1] # last.out[2]
    /\ last.order[1] > last.order[2]

\* C9: in a pass with input x every invocation of the entity system receives
\* x, whatever earlier invocations did with their copies.
C9_InputCloned ==
    last.n > 0 => \A i \in CallsOf(<<>>) : L[i].x = last.in

\* A pass over two entities of a system whose first stage increments its copy
\* of the input.
C9_Witness ==
    /\ last.n > 0
    /\ Cfg.sys.kind = "pipe" /\ Cfg.sys.a.kind = "leaf" /\ Cfg.sys.a.op = "succ"
    /\ Cardinality(CallsOf(<<>>)) >= 2

\* The lookups under which the function entity systems of a composition get
\* their per-entity data, each with the function's own params: the driver's
\* Query<Data, Filter> for the driven system, Query<A::Data, ESPipeFilter>
\* inside a pipe, Query<T::Data, T::Filter> inside an optional.
RECURSIVE LeafViews(_, _, _)
LeafViews(s, d, f) ==
    CASE s.kind = "leaf" -> {[d |-> d, f |-> f, params |-> s.param]}
      [] s.kind = "pipe" ->
           LeafViews(s.a, DataOf(s.a), FilterOf(s)) \cup LeafViews(s.b, DataOf(s.b), FilterOf(s))
      [] s.kind = "optional" -> LeafViews(s.system, DataOf(s.system), FilterOf(s.system))
      [] s.kind = "adapter" -> LeafViews(s.system, d, f)

\* Whether data term list d fetches component c (mutably when `mut`).
Claims(d, c, mut) ==
    \E i \in 1..Len(d) : d[i].c = c /\ (mut => d[i].k = "Mut")

\* A declaration conflict: some function entity system's per-entity data and
\* one of its own params can reach the same component of one entity (an
\* entity both lookups match), one of them read-write.
DeclarationConflict(s) ==
    \E v \in LeafViews(s, DataOf(s), FilterOf(s)) : \E k \in 1..Len(v.params) :
      \E cs \in SUBSET Components : \E c \in cs :
        /\ QueryMatches(v.d, v.f, cs)
        /\ QueryMatches(v.params[k].data, v.params[k].filter, cs)
        /\ \/ Claims(v.d, c, TRUE) /\ Claims(v.params[k].data, c, FALSE)
           \/ Claims(v.d, c, FALSE) /\ Claims(v.params[k].data, c, TRUE)

C11_DataMatchNoAccess ==
    probe.op = "update_component_access" =>
      LET d == probe.in[1]
          a == probe.in[2]
          r == probe.out
      IN /\ r.reads = a.reads
         /\ r.writes = a.writes
         /\ r.with = a.with \cup {d[i].c : i \in {j \in 1..Len(d) : d[j].k \in {"Ref", "Mut"}}}
         /\ r.without = a.without

\* DataMatch<(&mut Count, &Marker)> updated a declaration that read nothing of
\* Count and required Marker absent.
C11_Witness ==
    /\ probe.op = "update_component_access"
    /\ probe.in[1] = <<Mut("Count"), Ref("Marker")>>
    /\ "Count" \notin probe.in[2].reads
    /\ probe.in[2].without = {"Marker"}
    /\ probe.out.with = {"Count", "Marker"}

C13_PipeLookupsSucceed ==
    /\ status # "run_panicked"
    /\ last.n > 0 =>
         /\ \A i \in 1..Len(L) :
              (L[i].t = "get" /\ Sub(Cfg.sys, L[i].node).kind = "pipe") => L[i].x[2]
         /\ \A p \in NodesOfKind("pipe") : \A i \in CallsOf(p) :
              \A slot \in {0, 1} :
                \E k \in (i + 1)..(RetOf(i) - 1) :
                  /\ L[k].t = "get" /\ L[k].node = p /\ L[k].e = L[i].e
                  /\ L[k].x[1] = slot /\ L[k].x[2]

\* A pipe nested in another operator was invoked, in a pass over a store
\* holding an entity that lacks the data of one of its stages.
C13_Witness ==
    /\ Passed
    /\ \E p \in NodesOfKind("pipe") :
         /\ p # <<>>
         /\ CallsOf(p) # {}
         /\ \E e \in alive :
              \/ ~DataMatches(DataOf(Sub(Cfg.sys, p).a), comps[e])
              \/ ~DataMatches(DataOf(Sub(Cfg.sys, p).b), comps[e])

\* The data requirements a stage claims: the per-entity data and the query
\* params of every function entity system in it.
StageRequirements(s) ==
    UNION {{v.d} \cup {v.params[k].data : k \in 1..Len(v.params)} :
           v \in LeafViews(s, DataOf(s), FilterOf(s))}

\* Stage a writes a component that stage b claims, or the other way round.
StagesConflict(a, b) ==
    \E c \in Components : \E da \in StageRequirements(a) : \E db \in StageRequirements(b) :
        \/ Claims(da, c, TRUE) /\ Claims(db, c, FALSE)
        \/ Claims(da, c, FALSE) /\ Claims(db, c, TRUE)

\* C14: a pipe of A and B whose data or params claim conflicting access to
\* one component (and where no stage conflicts with itself) raises no
\* declaration conflict: set-up succeeds and the pipe runs.
C14_PipeFusesConflict ==
    ((\E p \in NodesOfKind("pipe") : StagesConflict(Sub(Cfg.sys, p).a, Sub(Cfg.sys, p).b))
       /\ ~DeclarationConflict(Cfg.sys))
    => /\ status \in {"constructed", "ready"}
       /\ (Passed /\ Cfg.sys.kind = "pipe") =>
            Visited = {e \in alive : Eligible(Cfg.sys, comps[e])}

\* A pass of a pipe ran its stages on an entity whose Count the first
\* stage's query param may write and the second stage reads.
C14_Witness ==
    /\ Passed /\ Cfg.sys.kind = "pipe"
    /\ Cfg.sys.a.kind = "leaf" /\ Cfg.sys.a.param # <<>>
    /\ StagesConflict(Cfg.sys.a, Cfg.sys.b)
    /\ \E e \in Visited : "Count" \in comps[e]
    /\ CallsOf(<<2>>) # {}

\* The lookups of sub-view `slot` made by the pipe invocation that starts at i.
GetsOf(i, slot) ==
    {k \in (i + 1)..(RetOf(i) - 1) :
        L[k].t = "get" /\ L[k].node = L[i].node /\ L[k].x[1] = slot}

\* C15: in every PipeEntitySystem invocation at most one sub-view is held at
\* a time: A's view is taken, A runs and returns (its data and params are
\* consumed by the call), and only then B's view is taken and B runs; nothing
\* of B happens while A's view is held and nothing of A while B's is.
C15_ViewsExclusive ==
    Passed =>
      \A p \in NodesOfKind("pipe") : \A i \in CallsOf(p) :
        LET ca == The(ChildCalls(i, 1))
            cb == The(ChildCalls(i, 2))
        IN /\ Cardinality(GetsOf(i, 0)) = 1 /\ Cardinality(GetsOf(i, 1)) = 1
           /\ The(GetsOf(i, 0)) < ca
           /\ RetOf(ca) < The(GetsOf(i, 1))
           /\ The(GetsOf(i, 1)) < cb
           /\ RetOf(cb) < RetOf(i)
           /\ \A k \in The(GetsOf(i, 0))..RetOf(ca) :
                L[k].node = p \/ SubSeq(L[k].node, 1, Len(p) + 1) = p \o <<1>>
           /\ \A k \in The(GetsOf(i, 1))..RetOf(cb) :
                L[k].node = p \/ SubSeq(L[k].node, 1, Len(p) + 1) = p \o <<2>>

\* A pipe whose stages both fetch Count of the entity, the first mutably, was
\* invoked.
C15_Witness ==
    /\ Passed /\ Cfg.sys.kind = "pipe"
    /\ Cfg.sys.a.kind = "leaf" /\ Cfg.sys.b.kind = "leaf"
    /\ Claims(Cfg.sys.a.data, "Count", TRUE) /\ Claims(Cfg.sys.b.data, "Count", FALSE)
    /\ CallsOf(<<>>) # {}

Claimed(reqs) == {c \in Components : \E d \in reqs : Claims(d, c, FALSE)}
ClaimedMut(reqs) == {c \in Components : \E d \in reqs : Claims(d, c, TRUE)}

\* C17: the access an initialised PipeEntitySystem(A, B) has declared holds
\* exactly the read and write claims of A's data and params and of B's data
\* and params: none is missing and none is added (the pipe's own query, on
\* the entity id under ESPipeFilter, claims nothing, and every other query
\* claims what one requirement of A or B claims).
C17_PipeAccessExact ==
    (status = "ready" /\ Cfg.sys.kind = "pipe") =>
      LET reqs == StageRequirements(Cfg.sys.a) \cup StageRequirements(Cfg.sys.b)
      IN /\ UNION {a.reads : a \in access} = Claimed(reqs)
         /\ UNION {a.writes : a \in access} = ClaimedMut(reqs)
         /\ \E own \in access :
              /\ own = QueryAccess(DataOf(Cfg.sys), FilterOf(Cfg.sys))
              /\ own.reads = {} /\ own.writes = {}
         /\ \A a \in access :
              \/ a.reads = {} /\ a.writes = {}
              \/ \E d \in reqs : a.reads = Claimed({d}) /\ a.writes = ClaimedMut({d})

\* An initialised pipe whose first stage claims nothing of its own and whose
\* second stage reads Count.
C17_Witness ==
    /\ status = "ready" /\ Cfg.sys.kind = "pipe"
    /\ Claimed(StageRequirements(Cfg.sys.a)) = {}
    /\ Claimed(StageRequirements(Cfg.sys.b)) = {"Count"}
    /\ access # {}

\* C18: in a pass of a piped system the stages are ordered per entity: A
\* runs on e and then B runs on e, both to completion, before A runs on the
\* next entity; the entities are taken in visiting order, one invocation
\* ending before the next begins.
C18_PerEntityOrder ==
    (Passed /\ Cfg.sys.kind = "pipe") =>
      /\ \A i, j \in CallsOf(<<>>) : i < j => RetOf(i) < j
      /\ \A k \in 1..Len(last.order) :
           \E i \in CallsOf(<<>>) :
             L[i].e = last.order[k] /\ Cardinality({j \in CallsOf(<<>>) : j < i}) = k - 1
      /\ \A ca \in CallsOf(<<1>>) :
           \E cb \in CallsOf(<<2>>) :
             /\ L[cb].e = L[ca].e
             /\ RetOf(ca) < cb
             /\ \A ca2 \in CallsOf(<<1>>) : ca < ca2 => RetOf(cb) < ca2

\* A pass of a pipe, run through the derived IntoSystem, over three entities.
C18_Witness ==
    /\ Passed /\ Cfg.sys.kind = "pipe" /\ Cfg.driver = "IntoSystem"
    /\ Cardinality(CallsOf(<<1>>)) = 3
    /\ Cardinality(CallsOf(<<2>>)) = 3

\* The returns of increment_count on entity e before position k of the log.
IncrementsBefore(e, k) ==
    {j \in 1..(k - 1) :
        /\ L[j].t = "ret" /\ L[j].e = e
        /\ Sub(Cfg.sys, L[j].node).kind = "leaf"
        /\ Sub(Cfg.sys, L[j].node).op = "increment_count"}

\* C19: in an invocation of a pipe on e whose first stage writes Count of e
\* and whose second stage reads it, the second stage reads the value the
\* first wrote in that invocation, not the value Count had before.
C19_ReadsAfterWrite ==
    Passed =>
      \A p \in NodesOfKind("leaf") :
        Sub(Cfg.sys, p).op = "plus_count" =>
          \A k \in CallsOf(p) :
            Num(L[RetOf(k)].x) =
              Num(L[k].x) + last.pre[L[k].e] + Cardinality(IncrementsBefore(L[k].e, k))

\* pipe(increment_count, plus_count) ran on an entity: plus_count returned
\* twice the incremented Count.
C19_Witness ==
    /\ Passed /\ Cfg.sys.kind = "pipe"
    /\ Cfg.sys.a = increment_count /\ Cfg.sys.b = plus_count
    /\ \E i \in CallsOf(<<>>) :
         /\ last.pre[L[i].e] > 0
         /\ L[RetOf(i)].x = I32(2 * (last.pre[L[i].e] + 1))

\* The filter of s requires some component both present (a With term, or a
\* component a DataMatch'ed data requirement fetches) and absent.
Contradictory(s) ==
    LET f == FilterOf(s)
    IN \E c \in Components :
         /\ \E i \in 1..Len(f) :
              \/ f[i].k = "With" /\ f[i].c = c
              \/ f[i].k = "DataMatch" /\
                   \E j \in 1..Len(f[i].d) : f[i].d[j].k \in {"Ref", "Mut"} /\ f[i].d[j].c = c
         /\ \E i \in 1..Len(f) : f[i].k = "Without" /\ f[i].c = c

\* C20: a composition whose filters contradict each other is not an error:
\* it initialises, no entity of any store matches it, and each pass makes no
\* invocation, changes nothing and returns the default accumulator.
C20_ContradictoryFilters ==
    Contradictory(Cfg.sys) =>
      /\ status \in {"constructed", "ready"}
      /\ \A e \in alive : ~Eligible(Cfg.sys, comps[e])
      /\ last.n > 0 =>
           /\ L = <<>>
           /\ last.out = FoldDefault(Cfg.fold)
           /\ val = last.pre

\* A pass of pipe(With<Marker> stage, Without<Marker> stage) over a store
\* holding an entity with the marker and one without.
C20_Witness ==
    /\ Contradictory(Cfg.sys) /\ Passed
    /\ Cfg.driver = "into_system_with_output"
    /\ \E e \in alive : "Marker" \in comps[e]
    /\ \E e \in alive : "Marker" \notin comps[e]

\* The function entity systems of the composition that keep state.
StateNodes ==
    {p \in Paths(Cfg.sys) :
        Sub(Cfg.sys, p).kind = "leaf" /\ Sub(Cfg.sys, p).op \in {"count_calls", "tally"}}

\* The counter of s within the state h: count_calls keeps it in its Local
\* param, tally in the closure itself.
CounterOf(h, s) == IF s.op = "count_calls" THEN h.param ELSE h.own

\* C21: the system holds one entity system and one param state for all
\* entities and all passes: within a pass the counting invocations return
\* c + 1, c + 2, ... in visiting order, c being the count held when the pass
\* began, whatever entity each runs on, and the count held afterwards is c plus
\* the number of invocations.
C21_StateShared ==
    Passed =>
      /\ \A p \in StateNodes :
           LET s == Sub(Cfg.sys, p)
               c == CounterOf(last.held, s)
           IN /\ \A k \in CallsOf(p) :
                   Num(L[RetOf(k)].x) = c + Cardinality({j \in CallsOf(p) : j <= k})
              /\ CounterOf(held, s) = c + Cardinality(CallsOf(p))

\* The second pass of a counting system over two or more entities: the
\* count carried over from the first pass is handed from one entity to the
\* next.
C21_Witness ==
    /\ Passed /\ last.n = 2
    /\ \E p \in StateNodes :
         /\ CounterOf(last.held, Sub(Cfg.sys, p)) >= 2
         /\ \E i, j \in CallsOf(p) :
              /\ i < j /\ L[i].e # L[j].e
              /\ Num(L[RetOf(j)].x) = Num(L[RetOf(i)].x) + 1

\* C22: the With / Without terms DataMatch<D> declares are sound for every
\* data requirement D, alternative terms included: an entity that
\* DataMatch<D>::matches_component_set accepts holds every component declared
\* With and none declared Without, and a system taking
\* Query<&mut Count, DataMatch<D>> next to Query<&mut Count, F> is accepted
\* only if no entity is matched by both queries.
C22_DataMatchFiltersSound ==
    probe.op = "matches_component_set" =>
      LET d == probe.in[1]
          cs == comps[probe.in[2]]
          f == probe.in[3]
      IN /\ probe.out[1] =>
              /\ probe.out[2].with \subseteq cs
              /\ probe.out[2].without \cap cs = {}
         /\ probe.out[3] =>
              ~(/\ QueryMatches(<<Mut("Count")>>, <<DataMatch(d)>>, cs)
                /\ QueryMatches(<<Mut("Count")>>, f, cs))

\* The invocations of the ordinary system function under drive.
FunctionCalls ==
    CallsOf(IF Cfg.sys.kind = "adapter" THEN <<1>> ELSE <<>>)

\* C23: an ordinary system function converted to an entity system has empty
\* Data and an empty Filter and is eligible for every entity; a pass of the
\* system built from it runs the function exactly once on each entity of the
\* store, whatever components it holds, and not at all over an empty store.
C23_FunctionPerEntity ==
    IsSystemFunction(Cfg.sys) =>
      /\ DataOf(Cfg.sys) = <<>> /\ FilterOf(Cfg.sys) = <<>>
      /\ \A cs \in SUBSET Components : Eligible(Cfg.sys, cs)
      /\ Passed =>
           /\ \A e \in alive : Cardinality({i \in FunctionCalls : L[i].e = e}) = 1
           /\ Cardinality(FunctionCalls) = Cardinality(alive)

\* A pass of a system function over a store of two or more entities, one of
\* them holding no component: one invocation each.
C23_Witness ==
    /\ IsSystemFunction(Cfg.sys) /\ Passed
    /\ Cardinality(alive) >= 2
    /\ \E e \in alive : comps[e] = {}
    /\ Cardinality(FunctionCalls) = Cardinality(alive)

====
